---- MODULE Spec2Model ----
(***************************************************************************)
(* Model of processoAtt.py: the incremental collection of occurrence       *)
(* events (coletar_incremental), the merge into the local historical base  *)
(* (merge_base), the carrier remap (aplicar_dexpara) and the run() that    *)
(* chains them with the writes of base_status.parquet, last_run.txt and    *)
(* the publication to the sheet; fetch_page and iter_respostas page by     *)
(* page; and of pipeline_cf_status.py: extrair_df, update_status and the   *)
(* publication of run_pipeline.                                            *)
(***************************************************************************)
EXTENDS Integers, Sequences, FiniteSets, TLC

VARIABLES
    pc,            \* position of the process: inside coletar_incremental or run()
    recebidos,     \* history (SpecColeta): the items received so far, in arrival order
    registros,     \* the dict `registros` of coletar_incremental (insertion ordered)
    now,           \* the wall clock, in ticks
    janela,        \* <<di, df>> as returned by periodo() for the current run
    base,          \* the in-memory DataFrame `base` of run()
    base_parquet,  \* the file BASE_PARQUET: Ausente or Arquivo(rows)
    last_run,      \* the file LAST_RUN_PATH: Ausente or Arquivo(time)
    planilha,      \* the rows of the published sheet
    dexpara,       \* the content of the DExPARA table file
    execucoes,     \* number of runs started
    base_antes,    \* history: BASE_PARQUET when the current run began
    last_run_antes,\* history: LAST_RUN_PATH when the current run began
    fim_ok,        \* history: df of the last run that completed, as a file
    resultado,     \* history: outcome of the current or last run and its stage
    faltando,      \* the setting missing from the environment, or "nada"
    pagina,        \* params["page"] of the next request of iter_respostas
    total_pages,   \* total_pages of iter_respostas
    token,         \* the token of run(): the n-th one issued to it, 0 for none
    pedidos,       \* history: the requests fetch_page sent in the current or last run
    anterior,      \* history (SpecColeta): the items and the result of the previous call
    csvs,          \* pipeline_cf_status: the four CSV files of OUTPUT_DIR, in the order of CODES
    xlsx,          \* pipeline_cf_status: the sheet "Atualizacao de Status" of the Excel file
    clear_first,   \* pipeline_cf_status: the argument of run_pipeline
    aba_antes,     \* history (SpecStatus): the sheet when run_pipeline began
    j0,            \* pipeline_cf_status: the answer consultar got for page 0
    futures,       \* pipeline_cf_status: the futures of consultar, by page
    resultados     \* pipeline_cf_status: the list `resultados` of consultar

\* the variables of iter_respostas and fetch_page
varsHTTP == <<pagina, total_pages, token, pedidos>>

\* the variables of pipeline_cf_status.py
varsCF == <<csvs, xlsx, clear_first, aba_antes>>

\* the variables of consultar
varsConsultar == <<j0, futures, resultados>>

vars == <<pc, recebidos, registros, now, janela, base, base_parquet, last_run,
          planilha, dexpara, execucoes, base_antes, last_run_antes, fim_ok,
          resultado, faltando, varsHTTP, anterior, varsCF, varsConsultar>>

(***************************************************************************)
(* Bounds of the model.                                                    *)
(***************************************************************************)
MaxEventos == 3      \* items received by one coletar_incremental (SpecColeta)
MaxLote == 2         \* items received by one run (Spec)
MaxPaginas == 2      \* pages of one run (SpecPaginas)
MaxPorPagina == 1    \* items in one page (SpecPaginas)
MaxRespostas == 1    \* items answered to one consultar (SpecStatus)
MaxFuturos == 2      \* pages one consultar fetches concurrently (SpecConsultar)
MaxExecucoes == 2    \* runs started
MaxTempo == 4        \* last tick of the clock
TicksPorDia == 2     \* ticks in a day

(***************************************************************************)
(* Values.                                                                 *)
(***************************************************************************)
None == "None"       \* Python None / JSON null / pandas NA in an object column
Ausente == <<>>      \* a path that does not exist
Arquivo(c) == <<c>>  \* a file holding c
Existe(f) == f # Ausente
Conteudo(f) == f[1]
NaT == -1            \* pd.NaT

LOOKBACK_DIAS == 15

\* STATUS_MAP.get(codigo)
STATUS_MAP(codigo) ==
    CASE codigo \in {"1", "2", "37", "999"} -> "ENTREGUE"
      [] codigo \in {"25", "102", "203", "303", "325", "327"} -> "CANCELADO"
      [] codigo \in {"200", "201", "202"} -> "DADOS CONFIRMADOS"
      [] codigo \in {"7", "206"} -> "CONTATOS CONFIRMADOS"
      [] OTHER -> None

PRIORITY == <<"ENTREGUE", "CANCELADO", "DADOS CONFIRMADOS", "CONTATOS CONFIRMADOS">>

PRIORITY_RANK(s) == (CHOOSE i \in 1..Len(PRIORITY) : PRIORITY[i] = s) - 1

\* pd.to_datetime(x, errors="coerce"): the instant a text denotes, NaT for
\* None and for a text that is no date.  Two texts may denote one instant.
to_datetime(x) ==
    CASE x = "2024-05-01" -> 1
      [] x = "2024-05-01T00:00:00" -> 1
      [] x = "2024-05-02" -> 2
      [] OTHER -> NaT

\* Python truthiness of a value of the payload (`if not chave`, `if not status`)
Falsy(x) == x = None \/ x = ""

(***************************************************************************)
(* The items the API may return (flattened: embarque.chave, embarque.numero,*)
(* embarque.serie, embarque.transportadora.nome, tipoOcorrencia.codigo,    *)
(* data).                                                                  *)
(***************************************************************************)
Item(ch, nu, se, no, co, da) ==
    [chave |-> ch, numero |-> nu, serie |-> se, nome |-> no, codigo |-> co, data |-> da]

\* occurrences of invoice K1 from carrier A, dated and undated
EventosK1 ==
    { Item("K1", "10", "1", "A", co, da) :
        co \in {"1", "25"}, da \in {None, "2024-05-01", "2024-05-02"} }

\* the two lower statuses
EventosK1Baixos ==
    { Item("K1", "10", "1", "A", "200", "2024-05-01"),
      Item("K1", "10", "1", "A", "7", "2024-05-02") }

\* the same invoice seen with other attributes (series, carrier, date text)
EventosK1Alt ==
    { Item("K1", "10", "4", "b", "2", da) :
        da \in {None, "2024-05-01T00:00:00", "sem data"} }

EventosK2 ==
    { Item("K2", "20", "1", "b", "7", "2024-05-01") }

\* items that coletar_incremental discards
EventosDescartados ==
    { Item(None, "10", "1", "A", "1", "2024-05-02"),
      Item("K1", "10", "1", "A", "999999", "2024-05-02"),
      Item("K2", "20", "3", "b", "1", "2024-05-02") }

Eventos ==
    EventosK1 \cup EventosK1Baixos \cup EventosK1Alt \cup EventosK2 \cup EventosDescartados

(***************************************************************************)
(* coletar_incremental                                                     *)
(***************************************************************************)
\* the record built at lines 203-210, 216-223 and 227-234
Registro(item) ==
    [CHAVE |-> item.chave,
     NUMERO |-> item.numero,
     SERIE |-> item.serie,
     TRANSPORTADORA |-> item.nome,
     STATUS |-> STATUS_MAP(item.codigo),
     DATA_ULTIMA_OCORRENCIA |-> item.data]

\* `k in d` for an insertion-ordered dict kept as the sequence of its values
Tem(regs, k) == \E i \in 1..Len(regs) : regs[i].CHAVE = k

Pos(regs, k) == CHOOSE i \in 1..Len(regs) : regs[i].CHAVE = k

\* d[k] = r: a new key goes last, an existing key keeps its position
Atribuir(regs, k, r) ==
    IF Tem(regs, k)
    THEN [regs EXCEPT ![Pos(regs, k)] = r]
    ELSE Append(regs, r)

\* mutant: the series test of line 190 is missing
DescartadoSemSerie(item) ==
    \/ Falsy(item.chave)
    \/ Falsy(STATUS_MAP(item.codigo))

\* the items the loop skips (lines 186, 190, 195)
Descartado(item) ==
    \/ Falsy(item.chave)
    \/ item.serie = "3"
    \/ Falsy(STATUS_MAP(item.codigo))

\* mutant: on a tie every later arrival replaces the candidate
SubstituiEmpateSempre(atual, item) == TRUE

\* mutant: the date comparison of line 226 reversed
SubstituiEmpateMaisAntigo(atual, item) ==
    LET data_occ_dt == to_datetime(item.data)
        atual_dt == to_datetime(atual.DATA_ULTIMA_OCORRENCIA)
    IN  atual_dt = NaT \/ (data_occ_dt # NaT /\ data_occ_dt < atual_dt)

\* mutant: an undated item never replaces, whatever the candidate
SubstituiEmpateSoDatado(atual, item) ==
    LET data_occ_dt == to_datetime(item.data)
        atual_dt == to_datetime(atual.DATA_ULTIMA_OCORRENCIA)
    IN  data_occ_dt # NaT /\ (atual_dt = NaT \/ data_occ_dt > atual_dt)

\* the test of line 226
SubstituiEmpate(atual, item) ==
    LET data_occ_dt == to_datetime(item.data)
        atual_dt == to_datetime(atual.DATA_ULTIMA_OCORRENCIA)
    IN  atual_dt = NaT \/ (data_occ_dt # NaT /\ data_occ_dt > atual_dt)

\* mutant: the rank comparison of line 215 reversed
SubstituiInvertido(atual, item) ==
    \/ PRIORITY_RANK(STATUS_MAP(item.codigo)) > PRIORITY_RANK(atual.STATUS)
    \/ /\ PRIORITY_RANK(STATUS_MAP(item.codigo)) = PRIORITY_RANK(atual.STATUS)
       /\ SubstituiEmpate(atual, item)

\* the tests of lines 215 and 224
Substitui(atual, item) ==
    LET atual_rank == PRIORITY_RANK(atual.STATUS)
        novo_rank == PRIORITY_RANK(STATUS_MAP(item.codigo))
    IN  \/ novo_rank < atual_rank
        \/ novo_rank = atual_rank /\ SubstituiEmpate(atual, item)

\* one iteration of the loop body, lines 184-234
Processar(regs, item) ==
    IF Descartado(item) THEN regs
    ELSE IF ~Tem(regs, item.chave) THEN Atribuir(regs, item.chave, Registro(item))
    ELSE IF Substitui(regs[Pos(regs, item.chave)], item)
         THEN Atribuir(regs, item.chave, Registro(item))
         ELSE regs

\* the whole loop over the items of every page, lines 181-236
RECURSIVE coletar_incremental(_)
coletar_incremental(itens) ==
    IF itens = <<>> THEN <<>>
    ELSE Processar(coletar_incremental(SubSeq(itens, 1, Len(itens) - 1)),
                   itens[Len(itens)])

(***************************************************************************)
(* The local base, the remap and the window                                *)
(***************************************************************************)
COLS == {"CHAVE", "NUMERO", "SERIE", "TRANSPORTADORA", "STATUS", "DATA_ULTIMA_OCORRENCIA"}

\* pd.isna of a cell
isna(x) == x = None

\* carregar_base, lines 241-247
carregar_base(arquivo) == IF Existe(arquivo) THEN Conteudo(arquivo) ELSE <<>>

\* one aligned row of base.update(novo): the non-NA cells of novo overwrite
AtualizarLinha(antiga, nova) ==
    [c \in COLS |->
        IF c = "CHAVE" THEN antiga.CHAVE
        ELSE IF isna(nova[c]) THEN antiga[c] ELSE nova[c]]

\* base.update(novo), line 257, both indexed by CHAVE
update(b, novo) ==
    [i \in 1..Len(b) |->
        IF Tem(novo, b[i].CHAVE)
        THEN AtualizarLinha(b[i], novo[Pos(novo, b[i].CHAVE)])
        ELSE b[i]]

\* mutant: line 258 without the isin filter, every incoming row is appended
NaoEstaSemFiltro(b, r) == TRUE

\* novo.loc[~novo.index.isin(base.index)], line 258
NaoEsta(b, r) == ~Tem(b, r.CHAVE)

novos(b, novo) == SelectSeq(novo, LAMBDA r : NaoEsta(b, r))

\* mutant: the early return of line 252 hands back novo instead of base
merge_base_so_novo(b, novo) ==
    IF novo = <<>> THEN novo ELSE update(b, novo) \o novos(b, novo)

\* merge_base, lines 249-262
merge_base(b, novo) ==
    IF novo = <<>> THEN b
    ELSE update(b, novo) \o novos(b, novo)

\* str.upper() on the carrier names of the model
upper(x) ==
    CASE x = "a" -> "A"
      [] x = "b" -> "B"
      [] OTHER -> x

\* d.get(str(x).upper(), x), line 277
Remapear(d, x) == IF upper(x) \in DOMAIN d THEN d[upper(x)] ELSE x

\* aplicar_dexpara, lines 265-279
aplicar_dexpara(d, df) ==
    [i \in 1..Len(df) |->
        [df[i] EXCEPT !.TRANSPORTADORA = Remapear(d, df[i].TRANSPORTADORA)]]

\* the empty table
TabelaVazia == <<>>

\* the DExPARA tables of the model: none, and one whose targets are sources
Tabelas == { TabelaVazia, ("B" :> "A") @@ ("A" :> "C") }

\* .replace(hour=0, minute=0, second=0, microsecond=0)
MeiaNoite(t) == t - (t % TicksPorDia)

\* mutant: the start of the window is not brought back to 00:00
periodo_sem_meia_noite(t, arquivo) ==
    IF Existe(arquivo)
    THEN <<t - TicksPorDia, t>>
    ELSE <<t - LOOKBACK_DIAS * TicksPorDia, t>>

\* periodo, lines 77-85
periodo(t, arquivo) ==
    IF Existe(arquivo)
    THEN <<MeiaNoite(t - TicksPorDia), t>>
    ELSE <<MeiaNoite(t - LOOKBACK_DIAS * TicksPorDia), t>>

\* the items one run may receive
EventosExecucao ==
    { Item("K1", "10", "1", "A", "1", "2024-05-02"),
      Item("K1", "10", "1", "A", "25", None),
      Item("K1", "10", "4", "b", "2", None),
      Item("K2", "20", "1", "b", "7", "2024-05-01"),
      Item("K2", "20", "3", "b", "1", "2024-05-02") }

RECURSIVE SeqsAte(_, _)
SeqsAte(S, n) ==
    IF n = 0 THEN { <<>> }
    ELSE LET menores == SeqsAte(S, n - 1)
         IN  menores \cup { Append(q, x) : q \in { m \in menores : Len(m) = n - 1 }, x \in S }

Lotes == SeqsAte(EventosExecucao, MaxLote)

\* the `respostas` lists one page may carry
Paginas == SeqsAte(EventosExecucao, MaxPorPagina)

(***************************************************************************)
(* The configuration and the pages of the API.                             *)
(***************************************************************************)
\* the environments of the model: complete, or with one setting missing
Configuracoes ==
    {"nada", "CF_EMAIL", "SHEET_ID", "DEXPARA_XLSX_PATH", "GOOGLE_CREDENTIALS_PATH"}

\* validar_config, lines 87-100: TRUE when it returns, FALSE when it raises
validar_config(falta) ==
    falta \notin {"CF_EMAIL", "CF_SENHA", "SHEET_ID", "DEXPARA_XLSX_PATH"}

\* gsheets, lines 282-291: TRUE when it returns, FALSE when it raises
gsheets(falta) == falta # "GOOGLE_CREDENTIALS_PATH"

\* an answer of the server: the status code, whether the body parses as JSON,
\* and the fields `respostas` and `totalPages` of the body
Resposta(st, js, rs, tp) ==
    [status |-> st, json_ok |-> js, respostas |-> rs, totalPages |-> tp]

\* the answers that carry a page; iter_respostas reads totalPages on page 0
\* only (line 152), the model leaves it 0 on the other pages
RespostasComPagina(pag) ==
    { Resposta(200, TRUE, rs, tp) :
        rs \in Paginas, tp \in (IF pag = 0 THEN 0..MaxPaginas ELSE {0}) }

\* the answers fetch_page raises on when they are final: an HTTP error after
\* the retries of the session, a 401, a body that is not JSON
RespostasDeErro ==
    { Resposta(500, TRUE, <<>>, 0),
      Resposta(401, TRUE, <<>>, 0),
      Resposta(200, FALSE, <<>>, 0) }

\* r.raise_for_status() and r.json() both pass, lines 133-134
Legivel(r) == r.status = 200 /\ r.json_ok

\* entries of the request log
PedidoGet(pag, tok, r) ==
    [tipo |-> "get", pagina |-> pag, token |-> tok, status |-> r.status,
     ok |-> Legivel(r)]

PedidoLogin(pag, tok, aceito) ==
    [tipo |-> "login", pagina |-> pag, token |-> tok,
     status |-> IF aceito THEN 200 ELSE 500, ok |-> aceito]

\* mutant: the retry is sent with the token that was refused
fetch_page_mesmo_token(tok, pag, r1, login_ok, r2) ==
    IF r1.status # 401
    THEN [pedidos |-> <<PedidoGet(pag, tok, r1)>>, token |-> tok,
          ok |-> Legivel(r1), payload |-> r1]
    ELSE IF ~login_ok
    THEN [pedidos |-> <<PedidoGet(pag, tok, r1), PedidoLogin(pag, tok, FALSE)>>,
          token |-> tok, ok |-> FALSE, payload |-> r1]
    ELSE [pedidos |-> <<PedidoGet(pag, tok, r1), PedidoLogin(pag, tok + 1, TRUE),
                        PedidoGet(pag, tok, r2)>>,
          token |-> tok + 1, ok |-> Legivel(r2), payload |-> r2]

\* mutant: the token of autenticar stays inside fetch_page, the caller keeps
\* the one it passed
fetch_page_token_perdido(tok, pag, r1, login_ok, r2) ==
    IF r1.status # 401
    THEN [pedidos |-> <<PedidoGet(pag, tok, r1)>>, token |-> tok,
          ok |-> Legivel(r1), payload |-> r1]
    ELSE IF ~login_ok
    THEN [pedidos |-> <<PedidoGet(pag, tok, r1), PedidoLogin(pag, tok, FALSE)>>,
          token |-> tok, ok |-> FALSE, payload |-> r1]
    ELSE [pedidos |-> <<PedidoGet(pag, tok, r1), PedidoLogin(pag, tok + 1, TRUE),
                        PedidoGet(pag, tok + 1, r2)>>,
          token |-> tok, ok |-> Legivel(r2), payload |-> r2]

\* fetch_page, lines 125-134, for the answer r1 to the first request, the
\* outcome login_ok of autenticar and the answer r2 to the second request:
\* the requests it sends, the token it ends with, whether it returns (ok) or
\* raises, and the payload it returns
fetch_page(tok, pag, r1, login_ok, r2) ==
    IF r1.status # 401
    THEN [pedidos |-> <<PedidoGet(pag, tok, r1)>>, token |-> tok,
          ok |-> Legivel(r1), payload |-> r1]
    ELSE IF ~login_ok
    THEN [pedidos |-> <<PedidoGet(pag, tok, r1), PedidoLogin(pag, tok, FALSE)>>,
          token |-> tok, ok |-> FALSE, payload |-> r1]
    ELSE [pedidos |-> <<PedidoGet(pag, tok, r1), PedidoLogin(pag, tok + 1, TRUE),
                        PedidoGet(pag, tok + 1, r2)>>,
          token |-> tok + 1, ok |-> Legivel(r2), payload |-> r2]

\* the loop body of lines 183-234 over the items of one page
RECURSIVE processar_pagina(_, _)
processar_pagina(regs, page) ==
    IF page = <<>> THEN regs
    ELSE processar_pagina(Processar(regs, Head(page)), Tail(page))

(***************************************************************************)
(* The tab "Entregues e Barrados": the rows of cell values, each row cut   *)
(* after its last filled cell and the sheet after its last filled row.     *)
(***************************************************************************)
Branco == ""

Maximo(S) == CHOOSE m \in S : \A x \in S : x <= m

Minimo(S) == CHOOSE m \in S : \A x \in S : m <= x

AparaLinha(linha) ==
    SubSeq(linha, 1, Maximo({0} \cup { j \in 1..Len(linha) : linha[j] # Branco }))

AparaGrade(g) ==
    LET linhas == [i \in 1..Len(g) |-> AparaLinha(g[i])]
    IN  SubSeq(linhas, 1, Maximo({0} \cup { i \in 1..Len(g) : linhas[i] # <<>> }))

\* updateSheetProperties with gridProperties rowCount and columnCount: the
\* cells outside the new grid are deleted
updateSheetProperties(g, rowCount, columnCount) ==
    AparaGrade([i \in 1..Minimo({Len(g), rowCount}) |->
                   SubSeq(g[i], 1, Minimo({Len(g[i]), columnCount}))])

\* mutant: the clear leaves the values where they are
values_clear_nada(g, linha0, colunas) == g

\* values().clear on the columns 1..colunas from row linha0 down
values_clear(g, linha0, colunas) ==
    AparaGrade([i \in 1..Len(g) |->
                   IF i < linha0 THEN g[i]
                   ELSE [j \in 1..Len(g[i]) |->
                            IF j <= colunas THEN Branco ELSE g[i][j]]])

\* values().update with valueInputOption RAW and the top left cell in column A
\* of row linha0: the cells given are written (a null is skipped), the grid
\* grows to hold them, every other cell keeps its value
values_update(g, linha0, values) ==
    LET n == Maximo({Len(g), linha0 - 1 + Len(values)})
        Antiga(i) == IF i <= Len(g) THEN g[i] ELSE <<>>
    IN  AparaGrade([i \in 1..n |->
            IF i < linha0 \/ i > linha0 - 1 + Len(values) THEN Antiga(i)
            ELSE LET v == values[i - linha0 + 1]
                 IN  [j \in 1..Maximo({Len(v), Len(Antiga(i))}) |->
                        IF j <= Len(v) /\ v[j] # None THEN v[j]
                        ELSE IF j <= Len(Antiga(i)) THEN Antiga(i)[j]
                        ELSE Branco]])

\* df.columns.tolist() of the base
COLUNAS == <<"CHAVE", "NUMERO", "SERIE", "TRANSPORTADORA", "STATUS",
             "DATA_ULTIMA_OCORRENCIA">>

\* [df.columns.tolist()] + df.values.tolist(), line 341
ValoresDe(df) ==
    <<COLUNAS>> \o [i \in 1..Len(df) |-> [j \in 1..Len(COLUNAS) |-> df[i][COLUNAS[j]]]]

\* publicar, lines 293-352: the grid is resized to len(df) + 1 rows and 5
\* columns, A1:E is cleared and the header and the rows are written at A1
publicar(g, df) ==
    values_update(values_clear(updateSheetProperties(g, Len(df) + 1, 5), 1, 5),
                  1, ValoresDe(df))

(***************************************************************************)
(* pipeline_cf_status.py: extrair_df, update_status and the publication.   *)
(***************************************************************************)
\* an item of `respostas` with the number of entries of embarque.entregas
ItemCF(ch, nu, se, no, ne) ==
    [chave |-> ch, numero |-> nu, serie |-> se, nome |-> no, entregas |-> ne]

\* the items one consultar may answer: a shipment with two deliveries, a
\* shipment of another series with the same number and carrier, and a
\* shipment of series 3
ItensCF ==
    { ItemCF("K1", "10", "1", "A", 2),
      ItemCF("K2", "10", "4", "A", 0),
      ItemCF("K3", "30", "3", "b", 1) }

RespostasCF == SeqsAte(ItensCF, MaxRespostas)

\* one row of extrair_df (lines 176-193; Pedido and DataEntrega are not read
\* by update_status)
LinhaCsv(item) ==
    [NF |-> item.numero, Serie |-> item.serie, Transportadora |-> item.nome,
     Chave |-> item.chave]

\* the rows of one item: one per delivery, one when it has none (lines 171-194)
LinhasDoItem(item) ==
    [i \in 1..(IF item.entregas > 0 THEN item.entregas ELSE 1) |-> LinhaCsv(item)]

\* extrair_df, lines 167-196
RECURSIVE extrair_df(_)
extrair_df(respostas) ==
    IF respostas = <<>> THEN <<>>
    ELSE LinhasDoItem(Head(respostas)) \o extrair_df(Tail(respostas))

\* pd.to_numeric(errors="coerce") on the series of the model
NaN == -1

to_numeric(x) ==
    CASE x = "1" -> 1
      [] x = "3" -> 3
      [] x = "4" -> 4
      [] OTHER -> NaN

\* the statuses of file_paths and `ordem`, lines 225-230 and 248
ordem == <<"ENTREGUE", "CANCELADO", "DADOS CONFIRMADOS", "CONTATOS CONFIRMADOS">>

\* mutant: the filter of lines 244-245 is missing
FiltroSerieSemFiltro(linha) == TRUE

\* s_num != 3, lines 244-245
FiltroSerie(linha) == to_numeric(linha.Serie) # 3

\* lines 233-246 for one file: rename, STATUS, the series filter and the five
\* columns
ler_planilha(arquivo, status) ==
    LET linhas == SelectSeq(Conteudo(arquivo), FiltroSerie)
    IN  [i \in 1..Len(linhas) |->
            [NUMERO |-> linhas[i].NF, SERIE |-> linhas[i].Serie,
             CHAVE |-> linhas[i].Chave,
             TRANSPORTADORA |-> linhas[i].Transportadora, STATUS |-> status]]

\* the tuple of lines 252 and 254
Nota(r) == <<r.NUMERO, r.TRANSPORTADORA>>

\* lines 249-256: from the k-th status on, the rows whose tuple is not in
\* `notas`, concatenated
RECURSIVE concatenar(_, _, _)
concatenar(planilhas, k, notas) ==
    IF k > Len(ordem) THEN <<>>
    ELSE LET ficam == SelectSeq(planilhas[k], LAMBDA r : Nota(r) \notin notas)
         IN  ficam \o concatenar(planilhas, k + 1,
                                 notas \cup { Nota(ficam[i]) : i \in 1..Len(ficam) })

\* _norm, lines 69-71, on the carrier names of the model
norm(x) == upper(x)

\* update_status, lines 223-278: the rows written to "Atualizacao de Status"
update_status(arquivos, d) ==
    LET planilhas == [k \in 1..Len(ordem) |-> ler_planilha(arquivos[k], ordem[k])]
        df_final == concatenar(planilhas, 1, {})
    IN  [i \in 1..Len(df_final) |->
            [df_final[i] EXCEPT
                !.TRANSPORTADORA = IF norm(@) \in DOMAIN d THEN d[norm(@)] ELSE @]]

\* df.reindex(columns=[...]).values.tolist(), lines 303-305
ValoresXlsx(linhas) ==
    [i \in 1..Len(linhas) |->
        <<linhas[i].NUMERO, linhas[i].SERIE, linhas[i].CHAVE,
          linhas[i].TRANSPORTADORA, linhas[i].STATUS>>]

(***************************************************************************)
(* Spec: run(), lines 356-374, stage by stage, any number of times.        *)
(***************************************************************************)
\* no call of coletar_incremental has returned yet
SemAnterior == [itens |-> <<>>, mapa |-> <<>>]

\* the state before the first run: no base, no last_run.txt, an empty sheet
InitComum ==
    /\ now = 0
    /\ janela = <<0, 0>>
    /\ base = <<>>
    /\ base_parquet = Ausente
    /\ last_run = Ausente
    /\ planilha = <<>>
    /\ execucoes = 0
    /\ base_antes = Ausente
    /\ last_run_antes = Ausente
    /\ fim_ok = Ausente
    /\ resultado = [estado |-> "nenhum", etapa |-> "nenhuma"]
    /\ pagina = 0
    /\ total_pages = 0
    /\ token = 0
    /\ pedidos = <<>>

\* pipeline_cf_status.py has not run: no CSV, no Excel file
\* no consultar has been called
SemResposta == [status |-> 0, json_ok |-> FALSE, respostas |-> <<>>, totalPages |-> 0]

InitSemConsulta ==
    /\ j0 = SemResposta
    /\ futures = <<>>
    /\ resultados = <<>>

InitSemCF ==
    /\ csvs = <<Ausente, Ausente, Ausente, Ausente>>
    /\ xlsx = Ausente
    /\ clear_first = TRUE
    /\ aba_antes = <<>>
    /\ InitSemConsulta

Init ==
    /\ InitComum
    /\ pc = "ocioso"
    /\ recebidos = <<>>
    /\ registros = <<>>
    /\ dexpara \in Tabelas
    /\ faltando \in Configuracoes
    /\ anterior = SemAnterior
    /\ InitSemCF

\* lines 359-362: validar_config, periodo, make_session, autenticar succeed
Iniciar ==
    /\ pc = "ocioso"
    /\ execucoes < MaxExecucoes
    /\ validar_config(faltando)
    /\ \E t \in now..MaxTempo :
          /\ now' = t
          /\ janela' = periodo(t, base_parquet)
    /\ pc' = "coletar"
    /\ execucoes' = execucoes + 1
    /\ registros' = <<>>
    /\ base' = <<>>
    /\ base_antes' = base_parquet
    /\ last_run_antes' = last_run
    /\ resultado' = [estado |-> "em curso", etapa |-> "coletar"]
    /\ token' = 1
    /\ UNCHANGED <<recebidos, base_parquet, last_run, planilha, dexpara, fim_ok,
                   faltando, pagina, total_pages, pedidos, anterior, varsCF, varsConsultar>>

\* lines 359-362: validar_config raises, or it returns and autenticar raises
FalharInicio ==
    /\ pc = "ocioso"
    /\ execucoes < MaxExecucoes
    /\ \E t \in now..MaxTempo : now' = t
    /\ execucoes' = execucoes + 1
    /\ base_antes' = base_parquet
    /\ last_run_antes' = last_run
    /\ resultado' = [estado |-> "falhou",
                     etapa |-> IF validar_config(faltando) THEN "autenticar"
                               ELSE "validar_config"]
    /\ token' = 0
    /\ UNCHANGED <<pc, recebidos, registros, janela, base, base_parquet,
                   last_run, planilha, dexpara, fim_ok, faltando, pagina,
                   total_pages, pedidos, anterior, varsCF, varsConsultar>>

\* line 364: coletar_incremental over the items of the window
Coletar ==
    /\ pc = "coletar"
    /\ \E lote \in Lotes : registros' = coletar_incremental(lote)
    /\ pc' = "mesclar"
    /\ resultado' = [resultado EXCEPT !.etapa = "mesclar"]
    /\ UNCHANGED <<recebidos, now, janela, base, base_parquet, last_run, planilha,
                   dexpara, execucoes, base_antes, last_run_antes, fim_ok,
                   faltando, varsHTTP, anterior, varsCF, varsConsultar>>

\* lines 365-366: carregar_base and merge_base
Mesclar ==
    /\ pc = "mesclar"
    /\ base' = merge_base(carregar_base(base_parquet), registros)
    /\ pc' = "dexpara"
    /\ resultado' = [resultado EXCEPT !.etapa = "dexpara"]
    /\ UNCHANGED <<recebidos, registros, now, janela, base_parquet, last_run,
                   planilha, dexpara, execucoes, base_antes, last_run_antes,
                   fim_ok, faltando, varsHTTP, anterior, varsCF, varsConsultar>>

\* line 367: aplicar_dexpara
AplicarDexpara ==
    /\ pc = "dexpara"
    /\ base' = aplicar_dexpara(dexpara, base)
    /\ pc' = "gravar_base"
    /\ resultado' = [resultado EXCEPT !.etapa = "gravar_base"]
    /\ UNCHANGED <<recebidos, registros, now, janela, base_parquet, last_run,
                   planilha, dexpara, execucoes, base_antes, last_run_antes,
                   fim_ok, faltando, varsHTTP, anterior, varsCF, varsConsultar>>

\* line 369: base.to_parquet(BASE_PARQUET)
GravarBase ==
    /\ pc = "gravar_base"
    /\ base_parquet' = Arquivo(base)
    /\ pc' = "gravar_last_run"
    /\ resultado' = [resultado EXCEPT !.etapa = "gravar_last_run"]
    /\ UNCHANGED <<recebidos, registros, now, janela, base, last_run, planilha,
                   dexpara, execucoes, base_antes, last_run_antes, fim_ok,
                   faltando, varsHTTP, anterior, varsCF, varsConsultar>>

\* line 370: LAST_RUN_PATH.write_text(df.isoformat())
GravarLastRun ==
    /\ pc = "gravar_last_run"
    /\ last_run' = Arquivo(janela[2])
    /\ pc' = "publicar"
    /\ resultado' = [resultado EXCEPT !.etapa = "publicar"]
    /\ UNCHANGED <<recebidos, registros, now, janela, base, base_parquet,
                   planilha, dexpara, execucoes, base_antes, last_run_antes,
                   fim_ok, faltando, varsHTTP, anterior, varsCF, varsConsultar>>

\* lines 372-374: publicar succeeds and run returns
Publicar ==
    /\ pc = "publicar"
    /\ gsheets(faltando)
    /\ planilha' = publicar(planilha, base)
    /\ pc' = "ocioso"
    /\ resultado' = [estado |-> "sucesso", etapa |-> "fim"]
    /\ fim_ok' = Arquivo(janela[2])
    /\ UNCHANGED <<recebidos, registros, now, janela, base, base_parquet,
                   last_run, dexpara, execucoes, base_antes, last_run_antes,
                   faltando, varsHTTP, anterior, varsCF, varsConsultar>>

\* the call of the current stage raises (or the process is killed there):
\* run() has no handler, the exception ends it
Falhar ==
    /\ pc \in {"coletar", "mesclar", "dexpara", "gravar_base", "gravar_last_run",
               "publicar"}
    /\ pc' = "ocioso"
    /\ resultado' = [estado |-> "falhou", etapa |-> pc]
    /\ UNCHANGED <<recebidos, registros, now, janela, base, base_parquet,
                   last_run, planilha, dexpara, execucoes, base_antes,
                   last_run_antes, fim_ok, faltando, varsHTTP, anterior, varsCF, varsConsultar>>

Next ==
    \/ Iniciar
    \/ FalharInicio
    \/ Coletar
    \/ Mesclar
    \/ AplicarDexpara
    \/ GravarBase
    \/ GravarLastRun
    \/ Publicar
    \/ Falhar

Spec == Init /\ [][Next]_vars

(***************************************************************************)
(* SpecPaginas: one run() from the first request of iter_respostas on,     *)
(* page by page, then the stages of Spec.                                  *)
(***************************************************************************)
\* the stores a run may find: none, or the one an earlier run left
BasesIniciais ==
    { Ausente,
      Arquivo(coletar_incremental(<<Item("K1", "10", "1", "A", "25", "2024-05-01")>>)) }

\* the state after lines 359-362 of a run: the configuration is complete and
\* autenticar returned the first token
InitPaginas ==
    /\ pc = "coletar"
    /\ recebidos = <<>>
    /\ registros = <<>>
    /\ base_parquet \in BasesIniciais
    /\ last_run = IF Existe(base_parquet) THEN Arquivo(0) ELSE Ausente
    /\ now = TicksPorDia
    /\ janela = periodo(now, base_parquet)
    /\ base = <<>>
    /\ planilha = IF Existe(base_parquet) THEN publicar(<<>>, Conteudo(base_parquet))
                  ELSE <<>>
    /\ dexpara = TabelaVazia
    /\ execucoes = 1
    /\ base_antes = base_parquet
    /\ last_run_antes = last_run
    /\ fim_ok = last_run
    /\ resultado = [estado |-> "em curso", etapa |-> "coletar"]
    /\ faltando = "nada"
    /\ pagina = 0
    /\ total_pages = 0
    /\ token = 1
    /\ pedidos = <<>>
    /\ anterior = SemAnterior
    /\ InitSemCF

\* mutant: an empty page is asked for again instead of being skipped
ReceberPaginaRepeteVazia(f) ==
    LET tp == IF pagina = 0
              THEN (IF f.payload.totalPages <= 0 THEN 1 ELSE f.payload.totalPages)
              ELSE total_pages
        vazia == f.payload.respostas = <<>>
        fim == ~vazia /\ pagina + 1 >= tp
    IN  /\ pedidos' = pedidos \o f.pedidos
        /\ token' = f.token
        /\ registros' = processar_pagina(registros, f.payload.respostas)
        /\ pagina' = IF fim THEN 0 ELSE IF vazia THEN pagina ELSE pagina + 1
        /\ total_pages' = IF fim THEN 0 ELSE tp
        /\ pc' = IF fim THEN "mesclar" ELSE "coletar"
        /\ resultado' = [resultado EXCEPT !.etapa = IF fim THEN "mesclar" ELSE "coletar"]
        /\ UNCHANGED <<recebidos, now, janela, base, base_parquet, last_run,
                       planilha, dexpara, execucoes, base_antes, last_run_antes,
                       fim_ok, faltando, anterior, varsCF, varsConsultar>>

\* fetch_page returned f: iter_respostas takes the token and the payload
\* (lines 150-152, 163-164), the page goes through the loop of
\* coletar_incremental, and the generator moves to the next page or ends
ReceberPagina(f) ==
    LET tp == IF pagina = 0
              THEN (IF f.payload.totalPages <= 0 THEN 1 ELSE f.payload.totalPages)
              ELSE total_pages
        fim == pagina + 1 >= tp
    IN  /\ pedidos' = pedidos \o f.pedidos
        /\ token' = f.token
        /\ registros' = processar_pagina(registros, f.payload.respostas)
        /\ pagina' = IF fim THEN 0 ELSE pagina + 1
        /\ total_pages' = IF fim THEN 0 ELSE tp
        /\ pc' = IF fim THEN "mesclar" ELSE "coletar"
        /\ resultado' = [resultado EXCEPT !.etapa = IF fim THEN "mesclar" ELSE "coletar"]
        /\ UNCHANGED <<recebidos, now, janela, base, base_parquet, last_run,
                       planilha, dexpara, execucoes, base_antes, last_run_antes,
                       fim_ok, faltando, anterior, varsCF, varsConsultar>>

\* fetch_page raised: nothing catches the exception in iter_respostas
\* (lines 150, 163), coletar_incremental (line 182) or run (line 364)
LevantarPagina(f) ==
    /\ pedidos' = pedidos \o f.pedidos
    /\ token' = f.token
    /\ pc' = "ocioso"
    /\ resultado' = [estado |-> "falhou", etapa |-> "coletar"]
    /\ pagina' = 0
    /\ total_pages' = 0
    /\ UNCHANGED <<recebidos, registros, now, janela, base, base_parquet,
                   last_run, planilha, dexpara, execucoes, base_antes,
                   last_run_antes, fim_ok, faltando, anterior, varsCF, varsConsultar>>

\* the next page is answered at the first request
ColetarPagina ==
    /\ pc = "coletar"
    /\ \E r1 \in RespostasComPagina(pagina) :
          ReceberPagina(fetch_page(token, pagina, r1, TRUE, r1))

\* the request of the next page is answered 401, autenticar succeeds and the
\* second request is answered with the page
ColetarPaginaApos401 ==
    /\ pc = "coletar"
    /\ \E r2 \in RespostasComPagina(pagina) :
          ReceberPagina(fetch_page(token, pagina, Resposta(401, TRUE, <<>>, 0), TRUE, r2))

\* the first request of the next page fails for another reason than a 401
FalharPagina ==
    /\ pc = "coletar"
    /\ \E r1 \in { r \in RespostasDeErro : r.status # 401 } :
          LevantarPagina(fetch_page(token, pagina, r1, TRUE, r1))

\* the request of the next page is answered 401, and autenticar raises or the
\* second request fails
FalharPaginaApos401 ==
    /\ pc = "coletar"
    /\ \E login_ok \in BOOLEAN, r2 \in RespostasDeErro :
          LevantarPagina(fetch_page(token, pagina, Resposta(401, TRUE, <<>>, 0), login_ok, r2))

NextPaginas ==
    \/ ColetarPagina
    \/ ColetarPaginaApos401
    \/ FalharPagina
    \/ FalharPaginaApos401
    \/ Mesclar
    \/ AplicarDexpara
    \/ GravarBase
    \/ GravarLastRun
    \/ Publicar
    \/ Falhar

SpecPaginas == InitPaginas /\ [][NextPaginas]_vars

\* one call of fetch_page by iter_respostas, whatever its outcome
BuscarPagina ==
    \/ ColetarPagina
    \/ ColetarPaginaApos401
    \/ FalharPagina
    \/ FalharPaginaApos401

\* the same run under its scheduling: iter_respostas is sequential code and
\* every request has a timeout (lines 126-127, 131-132), so a call of
\* fetch_page that is due returns or raises
SpecPaginasJusta == SpecPaginas /\ WF_vars(BuscarPagina)

(***************************************************************************)
(* SpecColeta: one invocation of coletar_incremental, item by item, the    *)
(* items arriving in any order.                                            *)
(***************************************************************************)
InitColeta ==
    /\ InitComum
    /\ pc = "coletando"
    /\ recebidos = <<>>
    /\ registros = <<>>
    /\ dexpara = TabelaVazia
    /\ faltando = "nada"
    /\ anterior = SemAnterior
    /\ InitSemCF

\* lines 182-234: the next item of the current page goes through the loop body
ReceberItem ==
    /\ pc = "coletando"
    /\ Len(recebidos) < MaxEventos
    /\ \E item \in Eventos :
          /\ recebidos' = Append(recebidos, item)
          /\ registros' = Processar(registros, item)
    /\ UNCHANGED <<pc, now, janela, base, base_parquet, last_run, planilha,
                   dexpara, execucoes, base_antes, last_run_antes, fim_ok,
                   resultado, faltando, varsHTTP, anterior, varsCF, varsConsultar>>

\* lines 236-238: the generator is exhausted and the DataFrame is built
ConcluirColeta ==
    /\ pc = "coletando"
    /\ pc' = "coletado"
    /\ UNCHANGED <<recebidos, registros, now, janela, base, base_parquet,
                   last_run, planilha, dexpara, execucoes, base_antes,
                   last_run_antes, fim_ok, resultado, faltando, varsHTTP, anterior, varsCF, varsConsultar>>

\* mutant: registros is a dict that outlives the call
registros_herdados(deixado) == deixado

\* line 181: registros = {}, a new dict at every call, whatever the previous
\* call left in its own
novos_registros(deixado) == <<>>

\* coletar_incremental is called again, on the same items in the same order
Reinvocar ==
    /\ pc = "coletado"
    /\ pc' = "repetindo"
    /\ anterior' = [itens |-> recebidos, mapa |-> registros]
    /\ recebidos' = <<>>
    /\ registros' = novos_registros(registros)
    /\ UNCHANGED <<now, janela, base, base_parquet, last_run, planilha,
                   dexpara, execucoes, base_antes, last_run_antes, fim_ok,
                   resultado, faltando, varsHTTP, varsCF, varsConsultar>>

\* lines 182-234 in the second call: the next item of the same sequence
ReceberDeNovo ==
    /\ pc = "repetindo"
    /\ Len(recebidos) < Len(anterior.itens)
    /\ LET item == anterior.itens[Len(recebidos) + 1]
       IN  /\ recebidos' = Append(recebidos, item)
           /\ registros' = Processar(registros, item)
    /\ UNCHANGED <<pc, now, janela, base, base_parquet, last_run, planilha,
                   dexpara, execucoes, base_antes, last_run_antes, fim_ok,
                   resultado, faltando, varsHTTP, anterior, varsCF, varsConsultar>>

\* lines 236-238 in the second call
ConcluirRepeticao ==
    /\ pc = "repetindo"
    /\ Len(recebidos) = Len(anterior.itens)
    /\ pc' = "repetido"
    /\ UNCHANGED <<recebidos, registros, now, janela, base, base_parquet,
                   last_run, planilha, dexpara, execucoes, base_antes,
                   last_run_antes, fim_ok, resultado, faltando, varsHTTP,
                   anterior, varsCF, varsConsultar>>

NextColeta ==
    \/ ReceberItem
    \/ ConcluirColeta
    \/ Reinvocar
    \/ ReceberDeNovo
    \/ ConcluirRepeticao

SpecColeta == InitColeta /\ [][NextColeta]_vars

(***************************************************************************)
(* SpecStatus: one run_pipeline of pipeline_cf_status.py, lines 312-321.   *)
(***************************************************************************)
\* the header typed in row 1 of the tab
CabecalhoCF == <<"NUMERO", "SERIE", "CHAVE", "TRANSPORTADORA", "STATUS">>

\* the tab before the run: only the header, three rows left by an earlier
\* run_pipeline, or two rows left by publicar of processoAtt.py
AbasAnteriores ==
    { <<CabecalhoCF>>,
      values_update(<<CabecalhoCF>>, 2,
                    << <<"10", "1", "K1", "A", "ENTREGUE">>,
                       <<"20", "1", "K8", "A", "CANCELADO">>,
                       <<"40", "1", "K9", "b", "CANCELADO">> >>),
      publicar(<<>>, coletar_incremental(
                        << Item("K1", "10", "1", "A", "25", "2024-05-01"),
                           Item("K2", "20", "1", "b", "7", "2024-05-01") >>)) }

\* the state at line 313: nothing of processoAtt.py has run, the tab holds
\* what an earlier publication left
InitStatus ==
    /\ now = 0
    /\ janela = <<0, 0>>
    /\ base = <<>>
    /\ base_parquet = Ausente
    /\ last_run = Ausente
    /\ execucoes = 0
    /\ base_antes = Ausente
    /\ last_run_antes = Ausente
    /\ fim_ok = Ausente
    /\ resultado = [estado |-> "em curso", etapa |-> "gerar_csvs"]
    /\ pagina = 0
    /\ total_pages = 0
    /\ token = 0
    /\ pedidos = <<>>
    /\ pc = "gerar_csvs"
    /\ recebidos = <<>>
    /\ registros = <<>>
    /\ dexpara \in Tabelas
    /\ faltando = "nada"
    /\ anterior = SemAnterior
    /\ csvs = <<Ausente, Ausente, Ausente, Ausente>>
    /\ xlsx = Ausente
    /\ clear_first \in BOOLEAN
    /\ aba_antes \in AbasAnteriores
    /\ planilha = aba_antes
    /\ InitSemConsulta

\* the files gerar_todos_csvs has written so far
feitos == Cardinality({ k \in 1..Len(csvs) : Existe(csvs[k]) })

\* what the actions of run_pipeline leave alone
ForaDeCF ==
    <<recebidos, registros, now, janela, base, base_parquet, last_run, dexpara,
      execucoes, base_antes, last_run_antes, fim_ok, faltando, varsHTTP,
      anterior, clear_first, aba_antes, varsConsultar>>

\* lines 212-216: one iteration of the loop of gerar_todos_csvs: consultar,
\* extrair_df, salvar_csv
GerarCsv ==
    /\ pc = "gerar_csvs"
    /\ \E respostas \in RespostasCF :
          csvs' = [csvs EXCEPT ![feitos + 1] = Arquivo(extrair_df(respostas))]
    /\ pc' = IF feitos + 1 = Len(csvs) THEN "update_status" ELSE "gerar_csvs"
    /\ resultado' = [resultado EXCEPT !.etapa = pc']
    /\ UNCHANGED <<ForaDeCF, xlsx, planilha>>

\* line 315: update_status returns; it reads the four files and needs the
\* column CHAVE (line 246), which a file without rows does not have
UpdateStatus ==
    /\ pc = "update_status"
    /\ \A k \in 1..Len(csvs) : Conteudo(csvs[k]) # <<>>
    /\ xlsx' = Arquivo(update_status(csvs, dexpara))
    /\ pc' = IF clear_first THEN "clear_google_sheet" ELSE "copy_to_google_sheet"
    /\ resultado' = [resultado EXCEPT !.etapa = pc']
    /\ UNCHANGED <<ForaDeCF, csvs, planilha>>

\* lines 317-318: clear_google_sheet clears A2:E
ClearGoogleSheet ==
    /\ pc = "clear_google_sheet"
    /\ planilha' = values_clear(planilha, 2, 5)
    /\ pc' = "copy_to_google_sheet"
    /\ resultado' = [resultado EXCEPT !.etapa = pc']
    /\ UNCHANGED <<ForaDeCF, csvs, xlsx>>

\* line 321: copy_to_google_sheet writes the rows at A2:E and run_pipeline
\* returns
CopyToGoogleSheet ==
    /\ pc = "copy_to_google_sheet"
    /\ planilha' = values_update(planilha, 2, ValoresXlsx(Conteudo(xlsx)))
    /\ pc' = "cf_fim"
    /\ resultado' = [estado |-> "sucesso", etapa |-> "cf_fim"]
    /\ UNCHANGED <<ForaDeCF, csvs, xlsx>>

\* the call of the current stage raises: run_pipeline has no handler
FalharCF ==
    /\ pc \in {"gerar_csvs", "update_status", "clear_google_sheet",
               "copy_to_google_sheet"}
    /\ pc' = "cf_falhou"
    /\ resultado' = [estado |-> "falhou", etapa |-> pc]
    /\ UNCHANGED <<ForaDeCF, csvs, xlsx, planilha>>

NextStatus ==
    \/ GerarCsv
    \/ UpdateStatus
    \/ ClearGoogleSheet
    \/ CopyToGoogleSheet
    \/ FalharCF

SpecStatus == InitStatus /\ [][NextStatus]_vars

(***************************************************************************)
(* SpecConsultar: one call of consultar of pipeline_cf_status.py, page 0   *)
(* first, then the pages 1..totalPages-1 on the thread pool.               *)
(***************************************************************************)
\* the records the pages of the model carry
ItensConsulta == { x \in ItensCF : x.serie # "3" }

\* the `respostas` lists one page may carry
PaginasCF == SeqsAte(ItensConsulta, MaxRespostas)

\* the answers that carry a page; consultar reads totalPages on page 0 only
\* (line 137), the model leaves it 0 on the other pages
RespostasDaConsulta(p) ==
    { Resposta(200, TRUE, rs, tp) :
        rs \in PaginasCF, tp \in (IF p = 0 THEN 0..(MaxFuturos + 1) ELSE {0}) }

\* a future: submitted, its call of fetch_page over (with the answer it got),
\* or handed out by as_completed
Futuro(e, r) == [estado |-> e, resposta |-> r]

\* fetch_page, lines 113-124: the list of the page, or the exception re-raised
fetch_page_cf(r) ==
    IF Legivel(r) THEN [ok |-> TRUE, data |-> r.respostas]
    ELSE [ok |-> FALSE, data |-> <<>>]

\* mutant: the page takes the place of what was collected
resultados_trocados(acumulado, res) ==
    IF res.ok THEN res.data ELSE acumulado

\* lines 149-153: f.result() extends the list, or its exception is logged
colher(acumulado, res) ==
    IF res.ok THEN acumulado \o res.data ELSE acumulado

\* the state at line 127
InitConsultar ==
    /\ InitComum
    /\ pc = "consultar"
    /\ recebidos = <<>>
    /\ registros = <<>>
    /\ dexpara = TabelaVazia
    /\ faltando = "nada"
    /\ anterior = SemAnterior
    /\ InitSemCF

\* what the actions of consultar leave alone
ForaDeConsultar ==
    <<recebidos, registros, now, janela, base, base_parquet, last_run, planilha,
      dexpara, execucoes, base_antes, last_run_antes, fim_ok, resultado,
      faltando, varsHTTP, anterior, varsCF>>

\* lines 127-147: page 0 answers; with one page or none the list is returned,
\* else the pages 1..total_pages-1 are submitted
ConsultarPagina0 ==
    /\ pc = "consultar"
    /\ \E r \in RespostasDaConsulta(0) :
          /\ j0' = r
          /\ resultados' = r.respostas
          /\ futures' = IF r.totalPages <= 1 THEN <<>>
                        ELSE [p \in 1..(r.totalPages - 1) |->
                                 Futuro("submetido", SemResposta)]
          /\ pc' = IF r.totalPages <= 1 THEN "consultado" ELSE "as_completed"
    /\ UNCHANGED ForaDeConsultar

\* lines 129-135: page 0 fails, the exception is logged and raised again
FalharPagina0 ==
    /\ pc = "consultar"
    /\ \E r \in RespostasDeErro : j0' = r
    /\ pc' = "consulta_falhou"
    /\ UNCHANGED <<ForaDeConsultar, futures, resultados>>

\* a worker ends fetch_page of page p (lines 113-124), whatever the others do
ConcluirFuturo ==
    /\ pc = "as_completed"
    /\ \E p \in DOMAIN futures :
          /\ futures[p].estado = "submetido"
          /\ \E r \in RespostasDaConsulta(p) \cup RespostasDeErro :
                futures' = [futures EXCEPT ![p] = Futuro("concluido", r)]
    /\ UNCHANGED <<ForaDeConsultar, pc, j0, resultados>>

\* lines 148-155: as_completed hands out a future that is over; after the
\* last one the list is returned
ColherFuturo ==
    /\ pc = "as_completed"
    /\ \E p \in DOMAIN futures :
          /\ futures[p].estado = "concluido"
          /\ resultados' = colher(resultados, fetch_page_cf(futures[p].resposta))
          /\ futures' = [futures EXCEPT ![p].estado = "colhido"]
          /\ pc' = IF \A q \in DOMAIN futures \ {p} : futures[q].estado = "colhido"
                   THEN "consultado" ELSE "as_completed"
    /\ UNCHANGED <<ForaDeConsultar, j0>>

NextConsultar ==
    \/ ConsultarPagina0
    \/ FalharPagina0
    \/ ConcluirFuturo
    \/ ColherFuturo

SpecConsultar == InitConsultar /\ [][NextConsultar]_vars

(***************************************************************************)
(* SpecRepositorio: the behaviours of either script and of one call of     *)
(* coletar_incremental item by item.                                       *)
(***************************************************************************)
InitRepositorio == Init \/ InitColeta \/ InitStatus

NextRepositorio ==
    \/ Iniciar
    \/ FalharInicio
    \/ Coletar
    \/ Mesclar
    \/ AplicarDexpara
    \/ GravarBase
    \/ GravarLastRun
    \/ Publicar
    \/ Falhar
    \/ ReceberItem
    \/ ConcluirColeta
    \/ Reinvocar
    \/ ReceberDeNovo
    \/ ConcluirRepeticao
    \/ GerarCsv
    \/ UpdateStatus
    \/ ClearGoogleSheet
    \/ CopyToGoogleSheet
    \/ FalharCF

SpecRepositorio == InitRepositorio /\ [][NextRepositorio]_vars

(***************************************************************************)
(* Properties of coletar_incremental (checked under SpecColeta).           *)
(***************************************************************************)
Chaves == {"K1", "K2"}

\* the items of key k that the loop does not discard
Validos(itens, k) ==
    { i \in 1..Len(itens) : ~Descartado(itens[i]) /\ itens[i].chave = k }

RankDe(item) == PRIORITY_RANK(STATUS_MAP(item.codigo))

\* the items of key k whose status has the highest priority among its items
Vencedores(itens, k) ==
    { i \in Validos(itens, k) :
        \A j \in Validos(itens, k) : RankDe(itens[i]) <= RankDe(itens[j]) }

\* among them, those with the latest instant (NaT counts as the earliest)
MaisRecentes(itens, k) ==
    { i \in Vencedores(itens, k) :
        \A j \in Vencedores(itens, k) :
            to_datetime(itens[i].data) >= to_datetime(itens[j].data) }

\* the reconciled map as a set of records, whatever the row order
Mapa(regs) == { regs[i] : i \in 1..Len(regs) }

ChavesDe(regs) == { regs[i].CHAVE : i \in 1..Len(regs) }

Permutacoes(itens) ==
    { [i \in 1..Len(itens) |-> itens[f[i]]] : f \in Permutations(1..Len(itens)) }

\* C1: the reconciled status of every key is the highest-priority status among
\* the resolved statuses of its non-discarded items, in whatever order they
\* arrived (the invariant holds after every prefix of every arrival order).
C1_PrioridadeMonotona ==
    \A k \in Chaves :
        Validos(recebidos, k) # {} =>
            /\ Tem(registros, k)
            /\ \E i \in Vencedores(recebidos, k) :
                  registros[Pos(registros, k)].STATUS = STATUS_MAP(recebidos[i].codigo)

\* C1 witness: a lower-priority item arrived after a higher-priority one of the
\* same key, and a third status was seen too.
C1_Witness ==
    /\ pc = "coletado"
    /\ Len(recebidos) = 3
    /\ \E i, j \in Validos(recebidos, "K1") :
          i < j /\ RankDe(recebidos[i]) < RankDe(recebidos[j])
    /\ Cardinality({ RankDe(recebidos[i]) : i \in Validos(recebidos, "K1") }) = 3

\* C2 as stated: every permutation of the items yields the same map, equal in
\* every attribute of every record.
C2_Comutativa ==
    pc = "coletado" =>
    \A p \in Permutacoes(recebidos) : Mapa(coletar_incremental(p)) = Mapa(registros)

\* the items that decide the record of key k agree in every attribute
Concordam(itens, k) ==
    \A i, j \in MaisRecentes(itens, k) : Registro(itens[i]) = Registro(itens[j])

\* C2 amended: every permutation yields the same key set and the same status
\* for every key; the whole record of a key is the same too whenever the
\* items of its winning priority that carry the latest timestamp (all of them
\* when none is dated) agree in every attribute.
C2_ComutativaNoStatus ==
    pc = "coletado" =>
    \A p \in Permutacoes(recebidos) :
        LET r == coletar_incremental(p) IN
        /\ ChavesDe(r) = ChavesDe(registros)
        /\ Len(r) = Cardinality(ChavesDe(r))
        /\ \A k \in ChavesDe(r) :
              /\ r[Pos(r, k)].STATUS = registros[Pos(registros, k)].STATUS
              /\ Concordam(recebidos, k) => r[Pos(r, k)] = registros[Pos(registros, k)]

\* C2 witness: three items of one key arrived, two of them tied in priority
\* and timestamp but different in carrier, below a deciding third one.
C2_Witness ==
    /\ pc = "coletado"
    /\ Len(recebidos) = 3
    /\ Concordam(recebidos, "K1")
    /\ Cardinality(MaisRecentes(recebidos, "K1")) = 1
    /\ \E i, j \in Validos(recebidos, "K1") :
          /\ i # j
          /\ RankDe(recebidos[i]) = RankDe(recebidos[j])
          /\ to_datetime(recebidos[i].data) = to_datetime(recebidos[j].data)
          /\ recebidos[i].nome # recebidos[j].nome

\* C3: when items of a key tie in (winning) priority and carry parseable
\* timestamps, the record is the record of the item with the later timestamp,
\* whichever arrived first.
C3_DesempatePorData ==
    \A k \in Chaves :
        (\E i \in Vencedores(recebidos, k) : to_datetime(recebidos[i].data) # NaT) =>
            /\ Tem(registros, k)
            /\ \E i \in MaisRecentes(recebidos, k) :
                  registros[Pos(registros, k)] = Registro(recebidos[i])

\* C3 witness: the later timestamp t2 arrived before the earlier t1, same
\* priority, different attributes, no higher-priority item.
C3_Witness ==
    /\ pc = "coletado"
    /\ \E i, j \in Vencedores(recebidos, "K1") :
          /\ i < j
          /\ to_datetime(recebidos[j].data) # NaT
          /\ to_datetime(recebidos[i].data) > to_datetime(recebidos[j].data)
          /\ recebidos[i].nome # recebidos[j].nome
          /\ registros[Pos(registros, "K1")] = Registro(recebidos[i])

(***************************************************************************)
(* Properties of run() (checked under Spec).                               *)
(***************************************************************************)
Linhas(arquivo) == carregar_base(arquivo)

\* the row of key k in a table that holds it
LinhaDe(tabela, k) == tabela[Pos(tabela, k)]

\* C4: after any sequence of runs the persisted store holds at most one
\* record per invoice key.
C4_UmaLinhaPorChave ==
    \A i, j \in 1..Len(Linhas(base_parquet)) :
        Linhas(base_parquet)[i].CHAVE = Linhas(base_parquet)[j].CHAVE => i = j

\* C4 witness: a second run wrote a store in which it updated a key the store
\* already held and inserted a new one.
C4_Witness ==
    /\ execucoes = 2
    /\ pc = "gravar_last_run"
    /\ Existe(base_antes)
    /\ \E k1, k2 \in ChavesDe(registros) :
          /\ k1 \in ChavesDe(Linhas(base_antes))
          /\ k2 \notin ChavesDe(Linhas(base_antes))
    /\ Len(Linhas(base_parquet)) = 2

\* C5: no step of any run removes the store or a key from it: the key set of
\* the persisted store only grows.
C5_NuncaPerde ==
    [][ /\ Existe(base_parquet) => Existe(base_parquet')
        /\ ChavesDe(Linhas(base_parquet)) \subseteq ChavesDe(Linhas(base_parquet'))
      ]_vars

\* C5 witness: a run whose window brought no item of a stored key (an empty
\* incremental result) has written the store, and the key is still there.
C5_Witness ==
    /\ execucoes = 2
    /\ pc = "gravar_last_run"
    /\ registros = <<>>
    /\ "K1" \in ChavesDe(Linhas(base_antes))
    /\ "K1" \in ChavesDe(Linhas(base_parquet))

\* C6 as stated: after merge_base every key of incoming carries the incoming
\* record in every attribute, every key only in persisted keeps its record,
\* every key only in incoming is inserted with the incoming record.
C6_SobrescreveTudo ==
    pc = "dexpara" =>
        /\ \A k \in ChavesDe(registros) :
              Tem(base, k) /\ LinhaDe(base, k) = LinhaDe(registros, k)
        /\ \A k \in ChavesDe(Linhas(base_parquet)) \ ChavesDe(registros) :
              Tem(base, k) /\ LinhaDe(base, k) = LinhaDe(Linhas(base_parquet), k)
        /\ ChavesDe(base) = ChavesDe(Linhas(base_parquet)) \cup ChavesDe(registros)

\* C7 as stated: the priority of the stored status of a key never decreases
\* from one run to the next.
C7_StatusNaoRegride ==
    \A k \in ChavesDe(Linhas(base_antes)) \cap ChavesDe(Linhas(base_parquet)) :
        PRIORITY_RANK(LinhaDe(Linhas(base_parquet), k).STATUS)
            <= PRIORITY_RANK(LinhaDe(Linhas(base_antes), k).STATUS)

\* C8 as stated: in every run in which a stage fails, publish included, the
\* watermark holds the value it had before the run began.
C8_WatermarkSoNoSucesso ==
    resultado.estado = "falhou" => last_run = last_run_antes

\* C9 as stated: a run that fails at any point before the watermark commit
\* leaves the persisted store exactly as it was before the run began.
C9_FalhaNaoTocaBase ==
    (resultado.estado = "falhou" /\ resultado.etapa # "publicar") =>
        base_parquet = base_antes

\* C10 as stated: the window a run requests starts no later than one time
\* unit after the end of the last successfully completed window, or covers
\* the lookback when there is none.
C10_SemJanelaPulada ==
    resultado.estado = "em curso" =>
        IF Existe(fim_ok)
        THEN janela[1] <= Conteudo(fim_ok) + 1
        ELSE janela[1] <= janela[2] - LOOKBACK_DIAS * TicksPorDia

CodigosMapeados ==
    {"1", "2", "37", "999", "25", "102", "203", "303", "325", "327",
     "200", "201", "202", "7", "206"}

\* an item the claim calls discarded: no invoice key, the excluded series, or
\* an unmapped occurrence code
SemEfeito(item) ==
    \/ item.chave = None
    \/ item.serie = "3"
    \/ item.codigo \notin CodigosMapeados

SoComEfeito(itens) == SelectSeq(itens, LAMBDA item : ~SemEfeito(item))

\* C13: the reconciled map of the items received equals the reconciled map of
\* the same items without the discarded ones; its keys are exactly the keys
\* with at least one non-discarded item, one entry each.
C13_DescartadosSemEfeito ==
    /\ registros = coletar_incremental(SoComEfeito(recebidos))
    /\ ChavesDe(registros) =
          { recebidos[i].chave : i \in { j \in 1..Len(recebidos) : ~SemEfeito(recebidos[j]) } }
    /\ Len(registros) = Cardinality(ChavesDe(registros))

\* C13 witness: a key with only discarded items (absent from the map) and a
\* key with a discarded item between two valid ones.
C13_Witness ==
    /\ pc = "coletado"
    /\ Len(recebidos) = 3
    /\ SemEfeito(recebidos[2])
    /\ recebidos[2].chave = "K1"
    /\ ~SemEfeito(recebidos[1]) /\ ~SemEfeito(recebidos[3])
    /\ ChavesDe(registros) = {"K1"}

\* max and min of two sizes
Maior(a, b) == IF a >= b THEN a ELSE b

\* C14: with P the persisted rows and I the incremental rows of a run, the
\* merged table has |P| + |I| rows when their keys are disjoint, and between
\* max(|P|, |I|) and |P| + |I| rows in general; merging I into itself gives I
\* and merging I again into the merged table leaves it unchanged.
C14_CardinalidadeIdempotencia ==
    pc = "dexpara" =>
        LET P == Linhas(base_parquet)
            I == registros
        IN  /\ ChavesDe(P) \cap ChavesDe(I) = {} => Len(base) = Len(P) + Len(I)
            /\ Len(base) >= Maior(Len(P), Len(I))
            /\ Len(base) <= Len(P) + Len(I)
            /\ merge_base(I, I) = I
            /\ merge_base(base, I) = base

\* C14 witness: a merge of two incremental rows into an existing store, one
\* key shared (its incoming timestamp missing) and one key new.
C14_Witness ==
    /\ pc = "dexpara"
    /\ Len(Linhas(base_parquet)) >= 1
    /\ Len(registros) = 2
    /\ \E k \in ChavesDe(registros) \cap ChavesDe(Linhas(base_parquet)) :
          /\ isna(LinhaDe(registros, k).DATA_ULTIMA_OCORRENCIA)
          /\ ~isna(LinhaDe(base, k).DATA_ULTIMA_OCORRENCIA)
    /\ ChavesDe(registros) \ ChavesDe(Linhas(base_parquet)) # {}

(***************************************************************************)
(* Properties of fetch_page and iter_respostas (checked under SpecPaginas).*)
(***************************************************************************)
\* the i-th request of the log is the first request of its page
PrimeiroDaPagina(i) ==
    /\ pedidos[i].tipo = "get"
    /\ i = 1 \/ pedidos[i - 1].pagina # pedidos[i].pagina

\* the run ended in the collection and wrote neither the store nor the watermark
FalhouNaColetaSemGravar ==
    /\ pc = "ocioso"
    /\ resultado = [estado |-> "falhou", etapa |-> "coletar"]
    /\ base_parquet = base_antes
    /\ last_run = last_run_antes

\* C15: a 401 on the first request of a page is followed by exactly one
\* re-authentication and, when it succeeds, by exactly one more request of the
\* same page with the new token; when the re-authentication or that second
\* request fails, no further request is sent and the run has failed without
\* writing the store or the watermark.
C15_Um401UmaRepeticao ==
    \A i \in 1..Len(pedidos) :
        (PrimeiroDaPagina(i) /\ pedidos[i].status = 401) =>
            /\ i < Len(pedidos)
            /\ pedidos[i + 1].tipo = "login"
            /\ pedidos[i + 1].pagina = pedidos[i].pagina
            /\ \A j \in (i + 3)..Len(pedidos) : pedidos[j].pagina # pedidos[i].pagina
            /\ IF pedidos[i + 1].ok
               THEN /\ i + 2 <= Len(pedidos)
                    /\ pedidos[i + 1].token = pedidos[i].token + 1
                    /\ pedidos[i + 2].tipo = "get"
                    /\ pedidos[i + 2].pagina = pedidos[i].pagina
                    /\ pedidos[i + 2].token = pedidos[i].token + 1
                    /\ ~pedidos[i + 2].ok =>
                          i + 2 = Len(pedidos) /\ FalhouNaColetaSemGravar
               ELSE i + 1 = Len(pedidos) /\ FalhouNaColetaSemGravar

\* C15 witness: page 0 was recovered after a 401, and on page 1 the request
\* after the second re-authentication failed, with a store on disk.
C15_Witness ==
    /\ Len(pedidos) = 6
    /\ pedidos[1].status = 401 /\ pedidos[3].ok
    /\ pedidos[4].status = 401 /\ pedidos[5].ok /\ ~pedidos[6].ok
    /\ pedidos[6].token = 3
    /\ Existe(base_antes)
    /\ resultado.estado = "falhou"

\* C16 as stated: a page whose request fails for another reason than a 401
\* (HTTP error after the retries of the session, body that is not JSON) is
\* skipped and the run goes on; it does not end the run.
C16_ErroDePaginaNaoEncerra ==
    \A i \in 1..Len(pedidos) :
        (PrimeiroDaPagina(i) /\ ~pedidos[i].ok /\ pedidos[i].status # 401) =>
            ~(resultado.estado = "falhou" /\ resultado.etapa = "coletar")

(***************************************************************************)
(* The configuration (checked under Spec).                                 *)
(***************************************************************************)
\* C17 as stated: with a required setting missing (API credentials, sheet id,
\* sheet credentials, DExPARA path) every run fails in validar_config: no
\* token is requested, no page is collected, and the store, the watermark and
\* the sheet are never written.
C17_ConfigFatalNoInicio ==
    faltando # "nada" =>
        /\ pc = "ocioso"
        /\ token = 0
        /\ resultado.etapa \in {"nenhuma", "validar_config"}
        /\ base_parquet = Ausente
        /\ last_run = Ausente
        /\ planilha = <<>>

C12_SemSerieExcluida ==
    /\ \A i \in 1..Len(registros) : registros[i].SERIE # "3"
    /\ \A i \in 1..Len(base) : base[i].SERIE # "3"
    /\ \A i \in 1..Len(Linhas(base_parquet)) : Linhas(base_parquet)[i].SERIE # "3"
    /\ Existe(xlsx) =>
          \A i \in 1..Len(Conteudo(xlsx)) : to_numeric(Conteudo(xlsx)[i].SERIE) # 3

\* C12 witness: update_status has written a table from four files, one of
\* them holding a row of series 3 and another a row that was kept.
C12_Witness ==
    /\ Existe(xlsx)
    /\ Conteudo(xlsx) # <<>>
    /\ \E k \in 1..Len(csvs) : \E i \in 1..Len(Conteudo(csvs[k])) :
          Conteudo(csvs[k])[i].Serie = "3"

\* the values as the sheet shows them: a null leaves the cell blank
Escrito(values) ==
    AparaGrade([i \in 1..Len(values) |->
                   [j \in 1..Len(values[i]) |->
                       IF values[i][j] = None THEN Branco ELSE values[i][j]]])

\* the rows of the sheet below the header
Dados(g) == SubSeq(g, 2, Len(g))

\* the columns A to E of the rows
ColunasAE(linhas) ==
    [i \in 1..Len(linhas) |-> SubSeq(linhas[i], 1, Minimo({5, Len(linhas[i])}))]

\* C18 as stated: after every successful publication (publicar of
\* processoAtt.py, run_pipeline with either value of clear_first) the rows of
\* the sheet are exactly the rows of the table published.
C18_PublicacaoSobrescreveTudo ==
    /\ (pc = "ocioso" /\ resultado.estado = "sucesso") =>
          planilha = Escrito(ValoresDe(base))
    /\ pc = "cf_fim" =>
          Dados(planilha) = Escrito(ValoresXlsx(Conteudo(xlsx)))

\* C18 amended: after publicar the sheet is exactly the header and the rows of
\* the table; after run_pipeline with clear_first the columns A to E below the
\* header are exactly the rows of the table; after run_pipeline without
\* clear_first only the rows written are those of the table, the rows below
\* them are the ones the sheet had before.
C18_SobrescreveQuandoLimpa ==
    /\ (pc = "ocioso" /\ resultado.estado = "sucesso") =>
          planilha = Escrito(ValoresDe(base))
    /\ pc = "cf_fim" =>
          LET t == Escrito(ValoresXlsx(Conteudo(xlsx)))
          IN  IF clear_first
              THEN AparaGrade(ColunasAE(Dados(planilha))) = t
              ELSE /\ Len(planilha) = Maximo({Len(aba_antes), Len(t) + 1})
                   /\ \A i \in 1..Len(t) :
                         ColunasAE(Dados(planilha))[i] = t[i]
                   /\ \A i \in (Len(t) + 2)..Len(planilha) :
                         planilha[i] = aba_antes[i]

\* C18 witness: run_pipeline with clear_first has published one row on a tab
\* that held three, and the tab now holds the header and that row.
C18_Witness ==
    /\ pc = "cf_fim"
    /\ clear_first
    /\ Len(aba_antes) = 4
    /\ Len(Conteudo(xlsx)) = 1
    /\ Len(planilha) = 2

\* the keys of the rows of the k-th file that pass the series filter
ChavesDoArquivo(k) ==
    { Conteudo(csvs[k])[i].Chave :
        i \in { j \in 1..Len(Conteudo(csvs[k])) : FiltroSerie(Conteudo(csvs[k])[j]) } }

\* C19 as stated: in the table of update_status every CHAVE is in at most one
\* row, every CHAVE of a file is in the table, and its row carries the first
\* status of `ordem` whose file holds the key.
C19_UmaLinhaPorChaveNoSnapshot ==
    Existe(xlsx) =>
        LET t == Conteudo(xlsx)
        IN  /\ \A i, j \in 1..Len(t) : t[i].CHAVE = t[j].CHAVE => i = j
            /\ \A k \in 1..Len(csvs) : \A c \in ChavesDoArquivo(k) :
                  \E i \in 1..Len(t) :
                     /\ t[i].CHAVE = c
                     /\ t[i].STATUS =
                           ordem[Minimo({ n \in 1..Len(csvs) : c \in ChavesDoArquivo(n) })]

(***************************************************************************)
(* The undated rule of coletar_incremental (checked under SpecColeta).     *)
(***************************************************************************)
\* the dict before the last item received went through the loop body
RegistrosAntes ==
    coletar_incremental(SubSeq(recebidos, 1, Len(recebidos) - 1))

\* the last item received is not discarded and met a candidate of its key
\* with the same priority
EmpatouPorUltimo ==
    /\ recebidos # <<>>
    /\ ~SemEfeito(recebidos[Len(recebidos)])
    /\ Tem(RegistrosAntes, recebidos[Len(recebidos)].chave)
    /\ RankDe(recebidos[Len(recebidos)]) =
          PRIORITY_RANK(LinhaDe(RegistrosAntes, recebidos[Len(recebidos)].chave).STATUS)

\* C21 as stated: on equal priority an undated item never replaces the
\* candidate, dated or undated; a dated item replaces an undated candidate,
\* and a dated candidate only when its timestamp is strictly later.
C21_SemDataNuncaSubstitui ==
    EmpatouPorUltimo =>
        LET item == recebidos[Len(recebidos)]
            atual == LinhaDe(RegistrosAntes, item.chave)
            novo_dt == to_datetime(item.data)
            atual_dt == to_datetime(atual.DATA_ULTIMA_OCORRENCIA)
        IN  IF novo_dt = NaT THEN registros = RegistrosAntes
            ELSE IF atual_dt = NaT \/ novo_dt > atual_dt
            THEN registros = Atribuir(RegistrosAntes, item.chave, Registro(item))
            ELSE registros = RegistrosAntes

\* C21 amended: on equal priority an undated candidate is replaced by every
\* item, dated or not; a dated candidate is replaced only by a dated item with
\* a strictly later timestamp.
C21_CandidatoSemDataSempreCede ==
    EmpatouPorUltimo =>
        LET item == recebidos[Len(recebidos)]
            atual == LinhaDe(RegistrosAntes, item.chave)
            novo_dt == to_datetime(item.data)
            atual_dt == to_datetime(atual.DATA_ULTIMA_OCORRENCIA)
        IN  IF atual_dt = NaT
            THEN registros = Atribuir(RegistrosAntes, item.chave, Registro(item))
            ELSE IF novo_dt # NaT /\ novo_dt > atual_dt
            THEN registros = Atribuir(RegistrosAntes, item.chave, Registro(item))
            ELSE registros = RegistrosAntes

\* C21 witness: an undated item has just replaced an undated candidate of the
\* same priority that differs from it.
C21_Witness ==
    /\ pc = "coletando"
    /\ EmpatouPorUltimo
    /\ to_datetime(recebidos[Len(recebidos)].data) = NaT
    /\ to_datetime(LinhaDe(RegistrosAntes, recebidos[Len(recebidos)].chave).DATA_ULTIMA_OCORRENCIA) = NaT
    /\ LinhaDe(RegistrosAntes, recebidos[Len(recebidos)].chave) # Registro(recebidos[Len(recebidos)])
    /\ LinhaDe(registros, recebidos[Len(recebidos)].chave) = Registro(recebidos[Len(recebidos)])

(***************************************************************************)
(* The frame condition of a run on the persisted records (under Spec).     *)
(***************************************************************************)
\* key k has no event in the window: the dict of this run is the one of a
\* batch without any event of k
SemEventoNaJanela(k) ==
    \E lote \in Lotes :
        /\ coletar_incremental(lote) = registros
        /\ \A i \in 1..Len(lote) : lote[i].chave # k

\* the store and the watermark found by this run were left by a run that
\* went through to the end of publicar
AnterioresComSucesso == Existe(fim_ok) /\ last_run_antes = fim_ok

\* C22: after successful runs, in a run that got as far as writing the store, the persisted record of
\* every key without an event in the window is the same, attribute by
\* attribute (carrier name included), before and after the write.
C22_SemEventoRegistroIntacto ==
    (pc \in {"gravar_last_run", "publicar"} /\ AnterioresComSucesso) =>
        \A k \in ChavesDe(Linhas(base_antes)) :
            SemEventoNaJanela(k) =>
                /\ Tem(Linhas(base_parquet), k)
                /\ LinhaDe(Linhas(base_parquet), k) = LinhaDe(Linhas(base_antes), k)

(***************************************************************************)
(* The pages collected by consultar (checked under SpecConsultar).         *)
(***************************************************************************)
\* how many times x occurs in a list
Ocorrencias(lista, x) == Cardinality({ i \in 1..Len(lista) : lista[i] = x })

\* how many times x was answered on page 0 and on the pages 1.. whose fetch
\* got a readable answer
RECURSIVE OcorrenciasNasPaginas(_, _)
OcorrenciasNasPaginas(p, x) ==
    IF p = 0 THEN Ocorrencias(j0.respostas, x)
    ELSE OcorrenciasNasPaginas(p - 1, x)
         + (IF futures[p].resposta.status = 200 /\ futures[p].resposta.json_ok
            THEN Ocorrencias(futures[p].resposta.respostas, x) ELSE 0)

\* C23: whatever the order in which the futures end and are handed out, the
\* list consultar returns holds each record of page 0 and of every page whose
\* fetch succeeded exactly as many times as it was answered, and nothing
\* else; a page that raised adds nothing and the others are still collected;
\* the query is aborted only on page 0, before any other page is fetched, and
\* it is aborted whenever page 0 fails.
C23_PaginasUmaVezCada ==
    /\ pc = "consultado" =>
          /\ j0.status = 200 /\ j0.json_ok
          /\ \A p \in DOMAIN futures : futures[p].estado = "colhido"
          /\ DOMAIN futures = 1..(Maior(j0.totalPages, 1) - 1)
          /\ \A i \in 1..Len(resultados) : resultados[i] \in ItensConsulta
          /\ \A x \in ItensConsulta :
                Ocorrencias(resultados, x) = OcorrenciasNasPaginas(Len(futures), x)
    /\ pc = "consulta_falhou" => futures = <<>> /\ resultados = <<>>
    /\ (pc \in {"as_completed", "consultado"}) => j0.status = 200 /\ j0.json_ok

\* C23 witness: a query of three pages has returned; page 1 raised, the
\* records of page 0 and of page 2 are in the list.
C23_Witness ==
    /\ pc = "consultado"
    /\ Len(futures) = 2
    /\ Len(j0.respostas) = 1
    /\ futures[1].resposta.status = 500
    /\ Len(futures[2].resposta.respostas) = 1
    /\ resultados = j0.respostas \o futures[2].resposta.respostas

(***************************************************************************)
(* The token after a re-authentication (checked under SpecPaginas).        *)
(***************************************************************************)
\* the re-authentications that succeeded before request i of the log
LoginsAntes(i) ==
    { j \in 1..(i - 1) : pedidos[j].tipo = "login" /\ pedidos[j].ok }

\* the page requests of the log answered 401
Gets401 == { i \in 1..Len(pedidos) : pedidos[i].tipo = "get" /\ pedidos[i].status = 401 }

\* C24: every page request is sent with the token of the last
\* re-authentication that succeeded before it (the token of run() when there
\* was none), on that page or on a later one; a token answered 401 is never
\* sent again, so each token gets at most one 401, and there are no more
\* re-authentications than 401 answers.
C24_TokenRenovadoSegue ==
    /\ \A i \in 1..Len(pedidos) :
          pedidos[i].tipo = "get" => pedidos[i].token = 1 + Cardinality(LoginsAntes(i))
    /\ \A i \in Gets401 : \A j \in (i + 1)..Len(pedidos) :
          pedidos[j].tipo = "get" => pedidos[j].token # pedidos[i].token
    /\ Cardinality({ j \in 1..Len(pedidos) : pedidos[j].tipo = "login" })
          <= Cardinality(Gets401)

\* C24 witness: page 0 was answered 401 and fetched again after the
\* re-authentication, and page 1 was then requested once, with the new token,
\* and answered.
C24_Witness ==
    /\ Len(pedidos) = 4
    /\ pedidos[1].status = 401 /\ pedidos[1].token = 1
    /\ pedidos[2].tipo = "login" /\ pedidos[2].ok
    /\ pedidos[3].pagina = 0 /\ pedidos[3].ok /\ pedidos[3].token = 2
    /\ pedidos[4].pagina = 1 /\ pedidos[4].ok /\ pedidos[4].token = 2

(***************************************************************************)
(* Termination of the collection (checked under SpecPaginasJusta).         *)
(***************************************************************************)
\* the requests of page p in the log
GetsDaPagina(p) ==
    { i \in 1..Len(pedidos) : pedidos[i].tipo = "get" /\ pedidos[i].pagina = p }

\* each page index was requested once, or twice with the first request
\* answered 401 and a re-authentication in between; the page indexes of the
\* log never go back, and while collecting the next index is below the
\* total_pages page 0 reported
CadaPaginaNoMaximoUmaVez ==
    /\ \A p \in 0..MaxPaginas :
          \/ Cardinality(GetsDaPagina(p)) <= 1
          \/ \E i \in GetsDaPagina(p) :
                /\ GetsDaPagina(p) = {i, i + 2}
                /\ pedidos[i].status = 401
                /\ pedidos[i + 1].tipo = "login" /\ pedidos[i + 1].ok
    /\ \A i \in 1..Len(pedidos) : \A j \in i..Len(pedidos) :
          pedidos[i].pagina <= pedidos[j].pagina
    /\ pc = "coletar" => pagina = 0 \/ pagina < total_pages

\* C25: iter_respostas requests each page index 0..totalPages-1 at most once,
\* plus at most one repetition after a re-authentication, an empty page makes
\* no page be requested again, and the collection eventually ends: the run
\* leaves coletar_incremental for merge_base, or it has failed.
C25_ColetaTermina ==
    /\ []CadaPaginaNoMaximoUmaVez
    /\ <>(pc # "coletar")

\* C25 witness: two pages without any record that is kept were requested
\* once each and the collection is over, the run is at merge_base.
C25_Witness ==
    /\ pc = "mesclar"
    /\ registros = <<>>
    /\ Len(pedidos) = 2
    /\ pedidos[1].pagina = 0 /\ pedidos[1].ok
    /\ pedidos[2].pagina = 1 /\ pedidos[2].ok

====
